---- MODULE Spec2Model ----
(***************************************************************************)
(* Model of src/features/modals/NodeModal/index.tsx: the node editing      *)
(* modal of the JSON graph view.  The modal keeps two pieces of React      *)
(* state (editing, fields), reads the selected node from the graph store   *)
(* and reads/writes the file contents through the file store.  handleSave  *)
(* is an async function with three awaits; every await is a point where    *)
(* other callbacks of the event loop can run.                              *)
(***************************************************************************)
EXTENDS Integers, Sequences, FiniteSets, TLC

(***************************************************************************)
(* JavaScript values.  Every value is a record of one shape, so that any   *)
(* two values can be compared:                                             *)
(*   kind  "string" "number" "boolean" "null" "object" "array",            *)
(*         "nan" (the number NaN), "undefined", "throw" (a thrown error)   *)
(*   str   the text of a string, num the value of a number,                *)
(*   bool  the value of a boolean,                                         *)
(*   kids  the entries of a container, in property order: a sequence of    *)
(*         [key, val]; an array's entries have key "" and are indexed by   *)
(*         position.                                                       *)
(***************************************************************************)
Mk(kind, str, num, bool, kids) ==
    [kind |-> kind, str |-> str, num |-> num, bool |-> bool, kids |-> kids]

Str(s)       == Mk("string", s, 0, FALSE, <<>>)
Num(n)       == Mk("number", "", n, FALSE, <<>>)
Bool(b)      == Mk("boolean", "", 0, b, <<>>)
Null         == Mk("null", "", 0, FALSE, <<>>)
NaN          == Mk("nan", "", 0, FALSE, <<>>)
Undefined    == Mk("undefined", "", 0, FALSE, <<>>)
Throw        == Mk("throw", "", 0, FALSE, <<>>)
Entry(k, v)  == [key |-> k, val |-> v]
Obj(entries) == Mk("object", "", 0, FALSE, entries)
Arr(items)   == Mk("array", "", 0, FALSE, [i \in 1..Len(items) |-> Entry("", items[i])])

IsContainer(v) == v.kind \in {"object", "array"}

(***************************************************************************)
(* Path segments: a string key or a number index.                          *)
(***************************************************************************)
K(name) == [isNum |-> FALSE, name |-> name, idx |-> 0]
I(idx)  == [isNum |-> TRUE, name |-> "", idx |-> idx]

(***************************************************************************)
(* Number <-> text, as String(n) and Number(text) of JavaScript on the     *)
(* non-negative integers up to MaxNum.                                     *)
(***************************************************************************)
MaxNum == 40

Digit(d) ==
    CASE d = 0 -> "0" [] d = 1 -> "1" [] d = 2 -> "2" [] d = 3 -> "3" [] d = 4 -> "4"
      [] d = 5 -> "5" [] d = 6 -> "6" [] d = 7 -> "7" [] d = 8 -> "8" [] d = 9 -> "9"

RECURSIVE NumberToString(_)
NumberToString(n) ==
    IF n < 10 THEN Digit(n) ELSE NumberToString(n \div 10) \o Digit(n % 10)

\* Number(text): "" is 0, a decimal numeral is its value, anything else is NaN.
Number(text) ==
    IF text = "" THEN Num(0)
    ELSE IF \E n \in 0..MaxNum : NumberToString(n) = text
         THEN Num(CHOOSE n \in 0..MaxNum : NumberToString(n) = text)
         ELSE NaN

\* The property name a segment denotes on an object (obj[2] is obj["2"]).
PropName(seg) == IF seg.isNum THEN NumberToString(seg.idx) ELSE seg.name

\* The characters of the strings the model uses ("Ann"[0] is "A").
Chars(s) ==
    CASE s = "Ann"  -> <<"A", "n", "n">>
      [] s = "abc"  -> <<"a", "b", "c">>
      [] s = "31"   -> <<"3", "1">>
      [] s = "true" -> <<"t", "r", "u", "e">>
      [] s = "x"    -> <<"x">>
      [] OTHER      -> <<>>

(***************************************************************************)
(* v[seg] and v[seg] = x of JavaScript in strict mode (a module).          *)
(***************************************************************************)
HasKey(entries, k) == \E i \in 1..Len(entries) : entries[i].key = k
KeyIndex(entries, k) == CHOOSE i \in 1..Len(entries) : entries[i].key = k

\* v[seg]: a TypeError on undefined and null, undefined when there is no such property.
GetProp(v, seg) ==
    CASE v.kind \in {"undefined", "null", "throw"} -> Throw
      [] v.kind = "object" ->
            IF HasKey(v.kids, PropName(seg))
            THEN v.kids[KeyIndex(v.kids, PropName(seg))].val
            ELSE Undefined
      [] v.kind = "array" ->
            IF seg.isNum /\ seg.idx < Len(v.kids) THEN v.kids[seg.idx + 1].val ELSE Undefined
      [] v.kind = "string" ->
            IF seg.isNum /\ seg.idx < Len(Chars(v.str))
            THEN Str(Chars(v.str)[seg.idx + 1])
            ELSE Undefined
      [] OTHER -> Undefined

\* The entries of an object after a new property is added: an integer key goes
\* among the integer keys in ascending order, ahead of the string keys, which
\* keep their insertion order.
AddEntry(entries, seg, x) ==
    LET before == IF seg.isNum
                  THEN {j \in 1..Len(entries) :
                          \E n \in 0..MaxNum :
                             n < seg.idx /\ NumberToString(n) = entries[j].key}
                  ELSE 1..Len(entries)
        at == Cardinality(before) + 1
    IN  [j \in 1..(Len(entries) + 1) |->
            IF j < at THEN entries[j]
            ELSE IF j = at THEN Entry(PropName(seg), x)
            ELSE entries[j - 1]]

\* v[seg] = x, as the value of v afterwards.  A TypeError on undefined, null and
\* (strict mode) on a primitive.  An object gains the property if it has none of
\* that name.  An array is extended with holes up to a new index; a named
\* property set on an array is no element of it and JSON.stringify never
\* prints it, so the array's elements are unchanged.
SetProp(v, seg, x) ==
    CASE x.kind = "throw" -> Throw
      [] v.kind = "object" ->
            IF HasKey(v.kids, PropName(seg))
            THEN [v EXCEPT !.kids[KeyIndex(v.kids, PropName(seg))].val = x]
            ELSE [v EXCEPT !.kids = AddEntry(v.kids, seg, x)]
      [] v.kind = "array" ->
            IF ~seg.isNum THEN v
            ELSE IF seg.idx < Len(v.kids) THEN [v EXCEPT !.kids[seg.idx + 1].val = x]
            ELSE [v EXCEPT !.kids =
                    [i \in 1..(seg.idx + 1) |->
                        IF i <= Len(v.kids) THEN v.kids[i]
                        ELSE IF i = seg.idx + 1 THEN Entry("", x)
                        ELSE Entry("", Undefined)]]
      [] OTHER -> Throw

(***************************************************************************)
(* JSON.stringify followed by a parse: NaN and array holes print as null,  *)
(* an undefined property is left out.                                      *)
(***************************************************************************)
RECURSIVE JSONStringify(_)
RECURSIVE StringifyEntries(_, _)
StringifyEntries(entries, inArray) ==
    IF entries = <<>> THEN <<>>
    ELSE LET e == Head(entries)
             rest == StringifyEntries(Tail(entries), inArray)
         IN  IF e.val.kind = "undefined" /\ ~inArray THEN rest
             ELSE <<Entry(e.key, JSONStringify(e.val))>> \o rest

JSONStringify(v) ==
    CASE v.kind \in {"nan", "undefined"} -> Null
      [] IsContainer(v) -> [v EXCEPT !.kids = StringifyEntries(v.kids, v.kind = "array")]
      [] OTHER -> v

(***************************************************************************)
(* The persisted text of the file store.  A text is either malformed or    *)
(* denotes one JSON document; the model holds the document it denotes.     *)
(***************************************************************************)
Text(doc)  == [wellFormed |-> TRUE, doc |-> doc]
Malformed  == [wellFormed |-> FALSE, doc |-> Undefined]

\* contentToJson(contents, format): the parsed document, or a thrown parse error.
ContentToJson(text) == IF text.wellFormed THEN text.doc ELSE Throw

\* jsonToContent(JSON.stringify(json, null, 2), format): the text that prints json.
JsonToContent(json) == Text(JSONStringify(json))

(***************************************************************************)
(* Nodes of the graph (NodeData): text is the node's rows {key, value,     *)
(* type}, path its location.  key is a string or null, value the raw       *)
(* JavaScript value, type the JSON type of the value.                      *)
(***************************************************************************)
Row(key, value, type) == [key |-> key, value |-> value, type |-> type]
NoNode == [sel |-> FALSE, text |-> <<>>, path |-> <<>>]

RECURSIVE ValueAt(_, _)
ValueAt(v, path) ==
    IF path = <<>> THEN v ELSE ValueAt(GetProp(v, Head(path)), Tail(path))

\* The segment that addresses entry i of container v.
SegOf(v, i) == IF v.kind = "array" THEN I(i - 1) ELSE K(v.kids[i].key)

\* The paths of the graph's nodes: the root, every nested container, and every
\* scalar element of an array (a scalar property of an object is a row of the
\* object's node, not a node).
RECURSIVE NodePaths(_)
NodePaths(v) ==
    {<<>>} \cup
    (IF IsContainer(v)
     THEN UNION {{<<SegOf(v, i)>> \o p : p \in NodePaths(v.kids[i].val)} :
                 i \in {j \in 1..Len(v.kids) :
                          IsContainer(v.kids[j].val) \/ v.kind = "array"}}
     ELSE {})

\* The node the graph holds for the subtree at path: one keyless row for a
\* scalar, one row per property for an object, no row for an array.
GraphNode(doc, path) ==
    LET v == ValueAt(doc, path)
    IN  [sel  |-> TRUE,
         path |-> path,
         text |-> CASE v.kind = "object" ->
                         [i \in 1..Len(v.kids) |->
                             Row(Str(v.kids[i].key), v.kids[i].val, v.kids[i].val.kind)]
                    [] v.kind = "array" -> <<>>
                    [] OTHER -> <<Row(Null, v, v.kind)>>]

\* A key that is truthy: a non-empty string (null and "" are falsy).
Truthy(key) == key.kind = "string" /\ key.str /= ""

\* String(value ?? "").
ToText(v) ==
    CASE v.kind \in {"null", "undefined"} -> ""
      [] v.kind = "string"  -> v.str
      [] v.kind = "number"  -> NumberToString(v.num)
      [] v.kind = "boolean" -> IF v.bool THEN "true" ELSE "false"
      [] v.kind = "nan"     -> "NaN"
      [] OTHER              -> "[object Object]"

\* The editable fields of a node's rows: the rows that are no containers, with
\* the key (or null), the value as text and the type.
Projection(rows) ==
    LET kept == SelectSeq(rows, LAMBDA r : r.type /= "array" /\ r.type /= "object")
    IN  [i \in 1..Len(kept) |->
            [key |-> kept[i].key, value |-> ToText(kept[i].value), type |-> kept[i].type]]

\* Coerce without the numeric parse: a number field keeps its text as a string.
CoerceWithoutNumber(f) ==
    CASE f.type = "null"    -> Null
      [] f.type = "boolean" -> Bool(f.value = "true")
      [] OTHER              -> Str(f.value)

\* The value a field's text stands for, by the field's type.
Coerce(f) ==
    CASE f.type = "null"    -> Null
      [] f.type = "boolean" -> Bool(f.value = "true")
      [] f.type = "number"  -> Number(f.value)
      [] OTHER              -> Str(f.value)

\* The loop and the final assignment of setAtPath on a non-empty path, as the
\* value of cur afterwards: a missing property on the way is created as [] when
\* the next segment is a number and as {} otherwise.
RECURSIVE AssignAtPath(_, _, _)
AssignAtPath(cur, path, value) ==
    IF Len(path) = 1 THEN SetProp(cur, path[1], value)
    ELSE LET got   == GetProp(cur, path[1])
             fresh == IF path[2].isNum THEN Arr(<<>>) ELSE Obj(<<>>)
             child == IF got.kind = "undefined" THEN fresh ELSE got
         IN  IF got.kind = "throw" THEN Throw
             ELSE SetProp(cur, path[1], AssignAtPath(child, Tail(path), value))

\* setAtPath(obj, path, value): ret is what the call returns, obj is the
\* argument object after the call.  With the empty path the call returns value
\* and leaves obj alone; otherwise it mutates obj and returns it.
setAtPath(obj, path, value) ==
    IF path = <<>> THEN [ret |-> value, obj |-> obj]
    ELSE [ret |-> AssignAtPath(obj, path, value), obj |-> AssignAtPath(obj, path, value)]

\* The object branch's assignments parent[f.key] = newVal, for the fields with a
\* truthy key in order, as the value of parent afterwards.
RECURSIVE AssignFields(_, _)
AssignFields(parent, flds) ==
    IF flds = <<>> \/ parent.kind = "throw" THEN parent
    ELSE LET f == Head(flds)
         IN  IF Truthy(f.key)
             THEN AssignFields(SetProp(parent, K(f.key.str), Coerce(f)), Tail(flds))
             ELSE AssignFields(parent, Tail(flds))

\* v with the value at path replaced by x, for a path that leads through
\* containers (the assignments through the resolved reference, seen from v).
RECURSIVE ReplaceAt(_, _, _)
ReplaceAt(v, path, x) ==
    IF path = <<>> THEN x
    ELSE SetProp(v, Head(path), ReplaceAt(GetProp(v, Head(path)), Tail(path), x))

\* The node is treated as an object: several rows, or one row with a truthy key.
IsObjectNode(node) ==
    Len(node.text) > 1 \/ (Len(node.text) = 1 /\ Truthy(node.text[1].key))

\* The body of handleSave between the parse and the serialization: json after
\* the edits of flds were applied for node, or Throw when a statement throws.
ApplyEdits(json, node, flds) ==
    IF IsObjectNode(node)
    THEN LET parent == ValueAt(json, node.path)
             after  == AssignFields(parent, flds)
         IN  IF parent.kind = "throw" \/ after.kind = "throw" THEN Throw
             ELSE IF after = parent THEN json
             ELSE ReplaceAt(json, node.path, after)
    ELSE IF flds = <<>> THEN Throw
         ELSE setAtPath(json, node.path, Coerce(flds[1])).obj

(***************************************************************************)
(* Bounds and the inputs the model draws from.                             *)
(***************************************************************************)
MaxInputs == 4   \* inputs in one run: selections, changes, saves, host writes
MaxIndex  == 2   \* the largest index handleChange is called with

CustomerDoc ==
    Obj(<<Entry("customer",
                Obj(<<Entry("name", Str("Ann")), Entry("age", Num(30)),
                      Entry("tags", Arr(<<Str("x")>>))>>))>>)
FlagsDoc    == Arr(<<Bool(TRUE), Null, Num(5)>>)
ScalarDoc   == Num(5)

\* The texts the file store can hold at the start.
InitTexts == {Text(CustomerDoc), Text(FlagsDoc), Text(ScalarDoc)}

\* The texts the host can put into the file store behind the modal's back.
HostTexts ==
    {Malformed, Text(Obj(<<>>)), Text(Obj(<<Entry("customer", Str("Ann"))>>))}

\* The texts typed into an input.
InputTexts == {"31", "abc"}

VARIABLES
    contents,    \* useFile: the persisted text
    nodeData,    \* useGraph: the selected node, NoNode when there is none
    opened,      \* the modal's opened prop
    editing,     \* React state: the modal shows the inputs
    fields,      \* React state: the editable fields
    saves,       \* the calls of handleSave that have not returned, in call order
    event,       \* what the last callback did (the toast, the step that failed)
    used         \* how many inputs of each kind were made

vars == <<contents, nodeData, opened, editing, fields, saves, event, used>>

Event(op, result) == [op |-> op, result |-> result]

Init ==
    /\ contents \in InitTexts
    /\ nodeData = NoNode
    /\ opened = FALSE
    /\ editing = FALSE
    /\ fields = <<>>
    /\ saves = <<>>
    /\ event = Event("init", "ok")
    /\ used = [saves |-> 0, changes |-> 0, hostWrites |-> 0, selects |-> 0]

\* The run has an input left.
InputLeft == used.saves + used.changes + used.hostWrites + used.selects < MaxInputs

\* ResetEffect without setEditing(false): the rows are projected, the mode stays.
ResetEffectKeepsEditing(node) ==
    /\ editing' = editing
    /\ fields' = Projection(node.text)

\* The effect on [nodeData, opened]: leave editing, project the node's rows.
ResetEffect(node) ==
    /\ editing' = FALSE
    /\ fields' = Projection(node.text)

\* Every pending save learns that the text changed under it.
Disturbed(ss) == [i \in 1..Len(ss) |-> [ss[i] EXCEPT !.foreign = TRUE]]

\* The saves in flight once the editing episode they were started in is over.
EpisodeEnded(ss) == [i \in 1..Len(ss) |-> [ss[i] EXCEPT !.ended = TRUE]]

\* The host selects a node of the graph of the current text and opens the modal.
SelectNode(path) ==
    /\ InputLeft
    /\ contents.wellFormed
    /\ path \in NodePaths(contents.doc)
    /\ nodeData' = GraphNode(contents.doc, path)
    /\ opened' = TRUE
    /\ ResetEffect(nodeData')
    /\ event' = Event("selectNode",
                      IF ~editing THEN "while viewing"
                      ELSE IF fields = Projection(nodeData.text) THEN "while editing"
                      ELSE "with unsaved edits")
    /\ used' = [used EXCEPT !.selects = @ + 1]
    /\ saves' = EpisodeEnded(saves)
    /\ UNCHANGED contents

\* onClose: the modal closes, the effect runs.
CloseModal ==
    /\ opened
    /\ opened' = FALSE
    /\ ResetEffect(nodeData)
    /\ event' = Event("close", "ok")
    /\ saves' = EpisodeEnded(saves)
    /\ UNCHANGED <<contents, nodeData, used>>

\* The host replaces the text of the file store.
HostSetContents(text) ==
    /\ InputLeft
    /\ text /= contents
    /\ contents' = text
    /\ saves' = Disturbed(saves)
    /\ event' = Event("hostWrite", "ok")
    /\ used' = [used EXCEPT !.hostWrites = @ + 1]
    /\ UNCHANGED <<nodeData, opened, editing, fields>>

\* The Edit button, shown while not editing and enabled when a node is selected.
handleEdit ==
    /\ opened /\ ~editing /\ nodeData.sel
    /\ editing' = TRUE
    /\ event' = Event("edit", "ok")
    /\ UNCHANGED <<contents, nodeData, opened, fields, saves, used>>

\* The Cancel button, shown while editing.
handleCancel ==
    /\ opened /\ editing
    /\ fields' = Projection(nodeData.text)
    /\ editing' = FALSE
    /\ event' = Event("cancel", "ok")
    /\ saves' = EpisodeEnded(saves)
    /\ UNCHANGED <<contents, nodeData, opened, used>>

\* fields after handleChange(index, value).
ChangedFields(flds, index, value) ==
    [i \in 1..Len(flds) |-> IF i - 1 = index THEN [flds[i] EXCEPT !.value = value] ELSE flds[i]]

\* handleChange with the inputs shown in both modes.
handleChangeAnyMode(index, value) ==
    /\ opened
    /\ InputLeft
    /\ fields' = ChangedFields(fields, index, value)
    /\ event' = Event(IF index < Len(fields) THEN "change" ELSE "change out of range", "ok")
    /\ used' = [used EXCEPT !.changes = @ + 1]
    /\ UNCHANGED <<contents, nodeData, opened, editing, saves>>

\* handleChange(index, value); the inputs are shown while editing.
handleChange(index, value) ==
    /\ opened /\ editing
    /\ InputLeft
    /\ fields' = ChangedFields(fields, index, value)
    /\ event' = Event(IF index < Len(fields) THEN "change" ELSE "change out of range", "ok")
    /\ used' = [used EXCEPT !.changes = @ + 1]
    /\ UNCHANGED <<contents, nodeData, opened, editing, saves>>

(***************************************************************************)
(* handleSave.  A call captures nodeData and fields of the render it was   *)
(* made in, reads the text and awaits contentToJson (pc "parse"); then     *)
(* applies the edits and awaits jsonToContent (pc "print"); then calls     *)
(* setContents, which stores the text, and awaits it (pc "set"); then      *)
(* leaves editing.  Any throw lands in the catch.                          *)
(***************************************************************************)
Save(pc, node, flds, read, out, foreign, ended) ==
    [pc |-> pc, nodeData |-> node, fields |-> flds, read |-> read, out |-> out,
     foreign |-> foreign, ended |-> ended]

Without(ss, i) == [j \in 1..(Len(ss) - 1) |-> IF j < i THEN ss[j] ELSE ss[j + 1]]

\* The Save button, shown while editing: up to the first await.
handleSave ==
    /\ opened /\ editing
    /\ InputLeft
    /\ used' = [used EXCEPT !.saves = @ + 1]
    /\ IF nodeData.sel
       THEN /\ saves' = Append(saves, Save("parse", nodeData, fields, contents, contents, FALSE, FALSE))
            /\ event' = Event("save", "started")
       ELSE /\ saves' = saves
            /\ event' = Event("save", "no node")
    /\ UNCHANGED <<contents, nodeData, opened, editing, fields>>

\* contentToJson threw: the catch.
SaveParseFailed(i) ==
    /\ saves[i].pc = "parse"
    /\ ContentToJson(saves[i].read).kind = "throw"
    /\ saves' = Without(saves, i)
    /\ event' = Event("save", "parse failed")
    /\ UNCHANGED <<contents, nodeData, opened, editing, fields, used>>

\* SaveMergeFailed with setEditing(false) in the catch.
SaveMergeFailedLeavesEditing(i) ==
    /\ saves[i].pc = "parse"
    /\ ContentToJson(saves[i].read).kind /= "throw"
    /\ ApplyEdits(ContentToJson(saves[i].read), saves[i].nodeData, saves[i].fields).kind = "throw"
    /\ saves' = EpisodeEnded(Without(saves, i))
    /\ editing' = FALSE
    /\ event' = Event("save", "merge failed")
    /\ UNCHANGED <<contents, nodeData, opened, fields, used>>

\* contentToJson returned and a statement of the merge threw: the catch.
SaveMergeFailed(i) ==
    /\ saves[i].pc = "parse"
    /\ ContentToJson(saves[i].read).kind /= "throw"
    /\ ApplyEdits(ContentToJson(saves[i].read), saves[i].nodeData, saves[i].fields).kind = "throw"
    /\ saves' = Without(saves, i)
    /\ event' = Event("save", "merge failed")
    /\ UNCHANGED <<contents, nodeData, opened, editing, fields, used>>

\* SaveMerged reading the node and the fields of the current render instead of
\* the ones captured when handleSave was invoked.
SaveMergedFromCurrentState(i) ==
    /\ saves[i].pc = "parse"
    /\ ContentToJson(saves[i].read).kind /= "throw"
    /\ LET json == ApplyEdits(ContentToJson(saves[i].read), nodeData, fields)
       IN  /\ json.kind /= "throw"
           /\ saves' = [saves EXCEPT ![i].pc = "print", ![i].out = JsonToContent(json)]
    /\ event' = Event("save", "merged")
    /\ UNCHANGED <<contents, nodeData, opened, editing, fields, used>>

\* contentToJson returned, the edits were applied, jsonToContent is awaited.
SaveMerged(i) ==
    /\ saves[i].pc = "parse"
    /\ ContentToJson(saves[i].read).kind /= "throw"
    /\ LET json == ApplyEdits(ContentToJson(saves[i].read), saves[i].nodeData, saves[i].fields)
       IN  /\ json.kind /= "throw"
           /\ saves' = [saves EXCEPT ![i].pc = "print", ![i].out = JsonToContent(json)]
    /\ event' = Event("save", "merged")
    /\ UNCHANGED <<contents, nodeData, opened, editing, fields, used>>

\* SavePrintFailed with the store moved before the serialization: the merged
\* document is stored, then jsonToContent throws.
SavePrintFailedAfterStore(i) ==
    /\ saves[i].pc = "print"
    /\ contents' = saves[i].out
    /\ saves' = Without(saves, i)
    /\ event' = Event("save", "print failed")
    /\ UNCHANGED <<nodeData, opened, editing, fields, used>>

\* jsonToContent threw (the converter cannot print the document in the format): the catch.
SavePrintFailed(i) ==
    /\ saves[i].pc = "print"
    /\ saves' = Without(saves, i)
    /\ event' = Event("save", "print failed")
    /\ UNCHANGED <<contents, nodeData, opened, editing, fields, used>>

\* jsonToContent returned; setContents stores the text and is awaited.
SaveWritten(i) ==
    /\ saves[i].pc = "print"
    /\ contents' = saves[i].out
    /\ saves' = [j \in 1..Len(saves) |->
                    IF j = i THEN [saves[j] EXCEPT !.pc = "set"]
                    ELSE IF contents' /= contents THEN [saves[j] EXCEPT !.foreign = TRUE]
                    ELSE saves[j]]
    /\ event' = Event("save", "written")
    /\ UNCHANGED <<nodeData, opened, editing, fields, used>>

\* setContents returned: setEditing(false), the success toast.
SaveDone(i) ==
    /\ saves[i].pc = "set"
    /\ editing' = FALSE
    /\ saves' = EpisodeEnded(Without(saves, i))
    /\ event' = Event("save", "saved")
    /\ UNCHANGED <<contents, nodeData, opened, fields, used>>

Next ==
    \/ \E path \in UNION {NodePaths(t.doc) : t \in InitTexts} : SelectNode(path)
    \/ CloseModal
    \/ \E text \in HostTexts : HostSetContents(text)
    \/ handleEdit
    \/ handleCancel
    \/ \E index \in 0..MaxIndex, value \in InputTexts : handleChange(index, value)
    \/ handleSave
    \/ \E i \in 1..Len(saves) : SaveParseFailed(i)
    \/ \E i \in 1..Len(saves) : SaveMergeFailed(i)
    \/ \E i \in 1..Len(saves) : SaveMerged(i)
    \/ \E i \in 1..Len(saves) : SavePrintFailed(i)
    \/ \E i \in 1..Len(saves) : SaveWritten(i)
    \/ \E i \in 1..Len(saves) : SaveDone(i)

Spec == Init /\ [][Next]_vars

(***************************************************************************)
(* The two texts the modal renders: the node's content and its JSON path.  *)
(***************************************************************************)
\* `${value}`: the text of a value in a template string.
TemplateString(v) ==
    CASE v.kind = "string"    -> v.str
      [] v.kind = "number"    -> NumberToString(v.num)
      [] v.kind = "boolean"   -> IF v.bool THEN "true" ELSE "false"
      [] v.kind = "null"      -> "null"
      [] v.kind = "undefined" -> "undefined"
      [] v.kind = "nan"       -> "NaN"
      [] OTHER                -> "[object Object]"

\* array.join(separator) on an array of strings.
RECURSIVE Join(_, _)
Join(texts, separator) ==
    IF texts = <<>> THEN ""
    ELSE IF Len(texts) = 1 THEN Head(texts)
    ELSE Head(texts) \o separator \o Join(Tail(texts), separator)

\* jsonPathToString with every segment quoted, numbers too.
jsonPathToStringQuotingAll(path) ==
    IF Len(path) = 0 THEN "$"
    ELSE LET segments == [i \in 1..Len(path) |-> "\"" \o PropName(path[i]) \o "\""]
         IN  "$[" \o Join(segments, "][") \o "]"

\* jsonPathToString(path); join prints a number segment as String(seg).
jsonPathToString(path) ==
    IF Len(path) = 0 THEN "$"
    ELSE LET segments == [i \in 1..Len(path) |->
                            IF path[i].isNum THEN NumberToString(path[i].idx)
                            ELSE "\"" \o path[i].name \o "\""]
         IN  "$[" \o Join(segments, "][") \o "]"

\* The segment a property name denotes: the canonical numeral of an integer is
\* an integer key of the object.
KeySeg(name) ==
    IF \E n \in 0..MaxNum : NumberToString(n) = name
    THEN I(CHOOSE n \in 0..MaxNum : NumberToString(n) = name)
    ELSE K(name)

\* The forEach of normalizeNodeData: obj after the rows that are no containers
\* and have a truthy key were assigned to it.
RECURSIVE AssignRows(_, _)
AssignRows(obj, nodeRows) ==
    IF nodeRows = <<>> THEN obj
    ELSE LET row == Head(nodeRows)
         IN  AssignRows(IF row.type /= "array" /\ row.type /= "object" /\ Truthy(row.key)
                        THEN SetProp(obj, KeySeg(row.key.str), row.value)
                        ELSE obj,
                        Tail(nodeRows))

\* The text JSON.stringify prints for a scalar.
ScalarJSON(v) ==
    CASE v.kind = "string"  -> "\"" \o v.str \o "\""
      [] v.kind = "number"  -> NumberToString(v.num)
      [] v.kind = "boolean" -> IF v.bool THEN "true" ELSE "false"
      [] OTHER              -> "null"

\* JSON.stringify(obj, null, 2) on an object of scalars: one indented line per
\* property in property order, an undefined property left out, "{}" when
\* there is none.
StringifyPretty(obj) ==
    LET shown == SelectSeq(obj.kids, LAMBDA e : e.val.kind /= "undefined")
        lines == [i \in 1..Len(shown) |->
                     "  \"" \o shown[i].key \o "\": " \o ScalarJSON(shown[i].val)]
    IN  IF shown = <<>> THEN "{}"
        ELSE "{\n" \o Join(lines, ",\n") \o "\n}"

\* normalizeNodeData(nodeRows).
normalizeNodeData(nodeRows) ==
    IF Len(nodeRows) = 0 THEN "{}"
    ELSE IF Len(nodeRows) = 1 /\ ~Truthy(nodeRows[1].key)
         THEN TemplateString(nodeRows[1].value)
         ELSE StringifyPretty(AssignRows(Obj(<<>>), nodeRows))

(***************************************************************************)
(* The path line of the modal over the paths of up to MaxPathLen segments. *)
(***************************************************************************)
MaxPathLen == 3

PathSegments == {K("a"), K("b"), I(0), I(2)}
PathInputs == UNION {[1..n -> PathSegments] : n \in 0..MaxPathLen}

\* The modal is open on a node.
InitOn(node) ==
    /\ contents = Text(ScalarDoc)
    /\ nodeData = node
    /\ opened = TRUE
    /\ editing = FALSE
    /\ fields = Projection(node.text)
    /\ saves = <<>>
    /\ event = Event("init", "ok")
    /\ used = [saves |-> 0, changes |-> 0, hostWrites |-> 0, selects |-> 0]

PathInit == \E path \in PathInputs : InitOn([sel |-> TRUE, text |-> <<>>, path |-> path])

\* The render of the "JSON Path" block.
RenderPath ==
    /\ opened
    /\ event' = Event("path", jsonPathToString(nodeData.path))
    /\ UNCHANGED <<contents, nodeData, opened, editing, fields, saves, used>>

PathNext == RenderPath

PathSpec == PathInit /\ [][PathNext]_vars

(***************************************************************************)
(* The content block of the modal over the row lists the graph can hold:   *)
(* no row, the one keyless row of a scalar, or up to MaxRows rows of an     *)
(* object under distinct keys.                                             *)
(***************************************************************************)
MaxRows == 3

KeylessRows == {Row(Null, Num(5), "number"), Row(Null, Str("x"), "string"),
                Row(Null, Null, "null")}
KeyedRows == {Row(Str("a"), Num(5), "number"), Row(Str("b"), Str("x"), "string"),
              Row(Str("1"), Bool(TRUE), "boolean"), Row(Str("n"), Null, "null"),
              Row(Str("c"), Obj(<<Entry("d", Num(1))>>), "object")}
RowInputs ==
    {<<>>} \cup {<<r>> : r \in KeylessRows} \cup
    UNION {{rows \in [1..n -> KeyedRows] :
               \A i, j \in 1..n : i /= j => rows[i].key /= rows[j].key} : n \in 1..MaxRows}

NormalizeInit == \E rows \in RowInputs : InitOn([sel |-> TRUE, text |-> rows, path |-> <<>>])

\* The render of the "Content" block while not editing.
RenderContent ==
    /\ opened /\ ~editing
    /\ event' = Event("content", normalizeNodeData(nodeData.text))
    /\ UNCHANGED <<contents, nodeData, opened, editing, fields, saves, used>>

NormalizeNext == RenderContent

NormalizeSpec == NormalizeInit /\ [][NormalizeNext]_vars

(***************************************************************************)
(* Properties.                                                             *)
(***************************************************************************)
FailedResults == {"parse failed", "merge failed", "print failed"}

\* Save i of this state is the one that ended in the catch in this step.
FailsNow(i) ==
    /\ i \in 1..Len(saves)
    /\ event'.op = "save" /\ event'.result \in FailedResults
    /\ saves' = Without(saves, i)

\* Save i of this state is the one whose setContents stored the text in this step.
WritesNow(i) ==
    /\ i \in 1..Len(saves)
    /\ Len(saves') = Len(saves)
    /\ saves[i].pc = "print" /\ saves'[i].pc = "set"

\* C1: a save that fails (at the parse, in the merge, at the serialization) has
\* stored nothing: the failing step leaves the persisted text as it is, the
\* save never reached its write, and when nothing else wrote the text since the
\* save read it, the text is the one the save read when it was invoked.
C1_FailedSaveStoresNothing ==
    [][\A i \in 1..Len(saves) :
          FailsNow(i) =>
             /\ contents' = contents
             /\ saves[i].pc /= "set"
             /\ (~saves[i].foreign => contents' = saves[i].read)]_vars

\* C1 witness: a save failed in its merge, after edits were made and the host
\* replaced the text.
C1_Witness ==
    /\ event = Event("save", "merge failed")
    /\ used.changes > 0
    /\ used.hostWrites > 0

\* C2: at most one save is between its parse and its write at any time.
C2_AtMostOneSaveInFlight ==
    Cardinality({i \in 1..Len(saves) : saves[i].pc \in {"parse", "print"}}) <= 1

\* A field of type number whose text is no number.
BadNumber(f) == f.type = "number" /\ Number(f.value).kind = "nan"
HasBadNumber(flds) == \E i \in 1..Len(flds) : BadNumber(flds[i])

\* C3: a save whose fields hold a number field with non-numeric text fails: it
\* never gets past its merge, so it never serializes or stores a document
\* (stated for object nodes, whose other rows would be applied with it).
C3_BadNumberSaveFails ==
    \A i \in 1..Len(saves) :
       (IsObjectNode(saves[i].nodeData) /\ HasBadNumber(saves[i].fields)) =>
          saves[i].pc = "parse"

\* Every segment of path exists in v and matches the container it is applied
\* to: a key on an object, an index on an array.
RECURSIVE PathExists(_, _)
PathExists(v, path) ==
    \/ path = <<>>
    \/ /\ IF Head(path).isNum
          THEN v.kind = "array" /\ Head(path).idx < Len(v.kids)
          ELSE v.kind = "object" /\ HasKey(v.kids, Head(path).name)
       /\ PathExists(GetProp(v, Head(path)), Tail(path))

\* The fields of a save that carry a truthy key.
KeyedFields(sv) == {k \in 1..Len(sv.fields) : Truthy(sv.fields[k].key)}

\* C4: when the save of an object node stores its text, the stored document
\* holds, for every field with a key, the field's coerced value at the node's
\* path followed by the key.
C4_ObjectSaveStoresCoercedValues ==
    [][\A i \in 1..Len(saves) :
          (WritesNow(i) /\ IsObjectNode(saves[i].nodeData)) =>
             \A k \in KeyedFields(saves[i]) :
                ValueAt(contents'.doc,
                        saves[i].nodeData.path \o <<K(saves[i].fields[k].key.str)>>)
                   = Coerce(saves[i].fields[k])]_vars

\* A save of a scalar node: one row without a key.
IsScalarSave(sv) == ~IsObjectNode(sv.nodeData) /\ Len(sv.fields) = 1

\* The node's path is valid in the document the save read: it leads to a scalar.
HasValidScalarPath(sv) ==
    /\ sv.read.wellFormed
    /\ PathExists(sv.read.doc, sv.nodeData.path)
    /\ ~IsContainer(ValueAt(sv.read.doc, sv.nodeData.path))

\* C5: when the save of a scalar node stores its text, the stored document
\* holds the field's coerced value at the node's path, for every valid path, the
\* empty path included (stated for the fields whose text coerces to a JSON
\* value).
C5_ScalarSaveStoresCoercedValue ==
    [][\A i \in 1..Len(saves) :
          (WritesNow(i) /\ IsScalarSave(saves[i]) /\ HasValidScalarPath(saves[i])
              /\ Coerce(saves[i].fields[1]).kind /= "nan") =>
             ValueAt(contents'.doc, saves[i].nodeData.path) = Coerce(saves[i].fields[1])]_vars

\* The intermediate segments of path (all but the last) resolve in doc.
IntermediateOK(doc, path) ==
    path = <<>> \/ PathExists(doc, SubSeq(path, 1, Len(path) - 1))

\* C6: a save whose path has an intermediate segment that does not resolve in
\* the document it parsed fails: no such save gets past its merge.
C6_UnresolvablePathFails ==
    \A i \in 1..Len(saves) :
       saves[i].pc \in {"print", "set"} =>
          IntermediateOK(saves[i].read.doc, saves[i].nodeData.path)

\* The places a save may rewrite: the keyed fields under the node's path for an
\* object node, the node's path for a scalar node.
EditedPaths(sv) ==
    IF IsObjectNode(sv.nodeData)
    THEN {sv.nodeData.path \o <<K(sv.fields[k].key.str)>> : k \in KeyedFields(sv)}
    ELSE {sv.nodeData.path}

\* b is a with nothing but the scalar leaves at the edited places rewritten:
\* every container has the same keys and indices, every other value is equal.
RECURSIVE SameOutside(_, _, _, _)
SameOutside(a, b, here, edited) ==
    IF here \in edited /\ ~IsContainer(a) THEN ~IsContainer(b)
    ELSE IF IsContainer(a)
         THEN /\ b.kind = a.kind
              /\ Len(b.kids) = Len(a.kids)
              /\ \A j \in 1..Len(a.kids) :
                    /\ b.kids[j].key = a.kids[j].key
                    /\ SameOutside(a.kids[j].val, b.kids[j].val,
                                   here \o <<SegOf(a, j)>>, edited)
         ELSE a = b

\* C7: the document a save serializes differs from the document it parsed only
\* in existing scalar leaves at the edited places.
C7_SaveRewritesOnlyExistingLeaves ==
    \A i \in 1..Len(saves) :
       saves[i].pc \in {"print", "set"} =>
          SameOutside(saves[i].read.doc, saves[i].out.doc, <<>>, EditedPaths(saves[i]))

\* A save of a scalar node of the document it read, with the projected field unchanged.
IsRoundTrip(sv) ==
    /\ sv.read.wellFormed
    /\ PathExists(sv.read.doc, sv.nodeData.path)
    /\ sv.nodeData = GraphNode(sv.read.doc, sv.nodeData.path)
    /\ IsScalarSave(sv)
    /\ sv.fields = Projection(sv.nodeData.text)

\* C8: saving a scalar node with its projected field unchanged gets through
\* the merge and serializes the document it read; the field coerces back to
\* the node's scalar, and projecting the node of the new document gives the
\* same field.
C8_ScalarRoundTrip ==
    \A i \in 1..Len(saves) :
       IsRoundTrip(saves[i]) =>
          LET sv == saves[i]
              json == ApplyEdits(ContentToJson(sv.read), sv.nodeData, sv.fields)
          IN  /\ json.kind /= "throw"
              /\ JsonToContent(json) = sv.read
              /\ sv.pc /= "parse" => sv.out = sv.read
              /\ Coerce(sv.fields[1]) = sv.nodeData.text[1].value
              /\ Projection(GraphNode(JsonToContent(json).doc, sv.nodeData.path).text)
                    = sv.fields

\* C8 witness: an unchanged boolean or null element of an array was saved and stored.
C8_Witness ==
    \E i \in 1..Len(saves) :
       /\ IsRoundTrip(saves[i])
       /\ saves[i].pc = "set"
       /\ saves[i].nodeData.path /= <<>>
       /\ saves[i].fields[1].type \in {"boolean", "null"}

\* C9: after cancel, with no save pending and the text written by nothing but
\* the saves of this node, the fields are the projection of the node as the
\* persisted document holds it: the projection of the last selection or, once a
\* save stored other values, the projection of the node as saved.
C9_CancelRestoresLatestProjection ==
    (/\ event.op = "cancel"
     /\ saves = <<>>
     /\ used.changes > 0
     /\ used.hostWrites = 0) =>
        fields = Projection(GraphNode(contents.doc, nodeData.path).text)

\* C10: handleChange with an index outside the fields ends in an error.
C10_OutOfRangeChangeIsAnError ==
    event.op = "change out of range" => event.result = "IndexError"

\* The session's modes: the modal is open and shows the inputs (Editing) or the
\* node (Viewing); a closed modal is a closed session.
Editing == opened /\ editing
Viewing == opened /\ ~editing

\* C11: the session is in no editing mode at the start; it goes from Editing to
\* Viewing only in a cancel, a selection or the completion of a save that
\* stored its text; a save that fails leaves the mode and the fields as they are.
C11_EditingEndsOnlyOnCancelSelectOrSaved ==
    /\ ~editing
    /\ [][/\ (Editing /\ Viewing') =>
                \/ event'.op \in {"cancel", "selectNode"}
                \/ event' = Event("save", "saved")
          /\ \A i \in 1..Len(saves) :
                FailsNow(i) => (editing' = editing /\ fields' = fields)]_vars

\* C11 witness: a save failed and the session is still Editing with edited fields.
C11_Witness ==
    /\ event.op = "save" /\ event.result \in FailedResults
    /\ Editing
    /\ fields /= Projection(nodeData.text)

C13_SelectNodeResets ==
    event.op = "selectNode" =>
       /\ Viewing
       /\ fields = Projection(nodeData.text)

\* C13 witness: a selection made while Editing with unsaved edits.
C13_Witness ==
    /\ event = Event("selectNode", "with unsaved edits")
    /\ used.selects = 2

\* The progress, the captured node and fields and the text read of save sv.
Activation(sv) == <<sv.pc, sv.nodeData, sv.fields, sv.read, sv.out>>

\* The text a save stores when it reads text, for its captured node and fields.
Derived(sv, text) == JsonToContent(ApplyEdits(ContentToJson(text), sv.nodeData, sv.fields))

\* C16: a cancel, a selection or a close leaves every save in flight where it
\* is; a save captures the node and the fields of the moment handleSave was
\* invoked and keeps them; a save whose text is printed can store it whatever
\* happened since; and the text it stores is the one derived with the captured
\* node and fields.
C16_PendingSaveWritesCapturedState ==
    [][/\ event'.op \in {"cancel", "selectNode", "close"} =>
             /\ Len(saves') = Len(saves)
             /\ \A i \in 1..Len(saves) : Activation(saves'[i]) = Activation(saves[i])
       /\ Len(saves') = Len(saves) + 1 =>
             /\ saves'[Len(saves')].nodeData = nodeData
             /\ saves'[Len(saves')].fields = fields
       /\ Len(saves') = Len(saves) =>
             \A i \in 1..Len(saves) :
                /\ saves'[i].nodeData = saves[i].nodeData
                /\ saves'[i].fields = saves[i].fields
       /\ \A i \in 1..Len(saves) :
             /\ saves[i].pc = "print" => ENABLED SaveWritten(i)
             /\ WritesNow(i) => contents' = Derived(saves[i], saves[i].read)]_vars

\* C16 witness: a save stored its text after a cancel reset the fields it had
\* captured.
C16_Witness ==
    /\ Len(saves) = 1
    /\ saves[1].pc = "set"
    /\ saves[1].ended
    /\ Viewing
    /\ used.selects = 1
    /\ nodeData = saves[1].nodeData
    /\ fields /= saves[1].fields
    /\ contents = saves[1].out
    /\ contents /= saves[1].read

\* The text of the store parses and holds the path of the object node of save sv.
StoreHoldsNode(sv) ==
    /\ IsObjectNode(sv.nodeData)
    /\ ContentToJson(contents).kind /= "throw"
    /\ PathExists(ContentToJson(contents), sv.nodeData.path)

\* C17: the text a save stores is the one derived from the text of the store
\* as it is when the save stores, so that a change made to the store since the
\* save read it is kept.
C17_WriteDerivedFromTextAtWrite ==
    [][\A i \in 1..Len(saves) :
          (WritesNow(i) /\ StoreHoldsNode(saves[i])) =>
             contents' = Derived(saves[i], contents)]_vars

\* A save of a node without editable scalar rows, whose text parses and holds
\* the node's path.
ZeroRowSave(sv) ==
    /\ Projection(sv.nodeData.text) = <<>>
    /\ ContentToJson(sv.read).kind /= "throw"
    /\ PathExists(ContentToJson(sv.read), sv.nodeData.path)

\* C18: a save of a node without editable scalar rows does not fail, stores
\* the document it read, and its completion leaves the session Viewing.
C18_ZeroRowSaveSucceeds ==
    [][\A i \in 1..Len(saves) :
          ZeroRowSave(saves[i]) =>
             /\ ~(FailsNow(i) /\ event'.result = "merge failed")
             /\ WritesNow(i) => contents'.doc = ContentToJson(saves[i].read)]_vars

\* C19: the completion of a save whose editing episode is over leaves a
\* session that is Editing in Editing.
C19_LateCompletionKeepsNewEpisode ==
    [][\A i \in 1..Len(saves) :
          (/\ saves[i].pc = "set"
           /\ saves[i].ended
           /\ event' = Event("save", "saved")
           /\ Len(saves') = Len(saves) - 1
           /\ Editing) => Editing']_vars

\* "$" followed by one bracketed group per segment, in order: a string segment
\* quoted, an integer segment as its bare numeral.
RECURSIVE BracketGroups(_)
BracketGroups(path) ==
    IF path = <<>> THEN ""
    ELSE "[" \o (IF Head(path).isNum THEN NumberToString(Head(path).idx)
                 ELSE "\"" \o Head(path).name \o "\"") \o "]"
         \o BracketGroups(Tail(path))

\* C14: the path line is "$" for the empty path and "$" followed by the
\* bracketed groups of the segments otherwise; the path a, 2, b prints as
\* $["a"][2]["b"].
C14_PathFormat ==
    event.op = "path" =>
       /\ nodeData.path = <<>> => event.result = "$"
       /\ event.result = "$" \o BracketGroups(nodeData.path)
       /\ nodeData.path = <<K("a"), I(2), K("b")>> => event.result = "$[\"a\"][2][\"b\"]"

\* C14 witness: the path a, 2, b was rendered.
C14_Witness ==
    /\ event.op = "path"
    /\ nodeData.path = <<K("a"), I(2), K("b")>>

\* The JSON object text with one line per row of rows, in the rows' order.
ObjectOfRows(rows) ==
    LET lines == [i \in 1..Len(rows) |->
                     "  \"" \o rows[i].key.str \o "\": " \o ScalarJSON(rows[i].value)]
    IN  IF rows = <<>> THEN "{}" ELSE "{\n" \o Join(lines, ",\n") \o "\n}"

\* C15: the content shown is "{}" for no row, the raw value for one row whose
\* key is null, and otherwise the JSON object of the rows that have a key and
\* are no containers, in the rows' order, each key with its typed value.
C15_NormalizeContent ==
    event.op = "content" =>
       LET rows == nodeData.text
       IN  IF rows = <<>> THEN event.result = "{}"
           ELSE IF Len(rows) = 1 /\ rows[1].key = Null
                THEN event.result = TemplateString(rows[1].value)
                ELSE event.result =
                        ObjectOfRows(SelectSeq(rows, LAMBDA r :
                            r.key /= Null /\ r.type /= "array" /\ r.type /= "object"))
====
